---- MODULE Spec2Model ----
(***************************************************************************)
(* Model of the chat gateway of ritik-ai-backend.                           *)
(*                                                                         *)
(*   backend/main.py        POST /chat, POST /chat/stream: each walks its   *)
(*                          own fixed list of models (no sticky index).     *)
(*   backend/ai_service.py  AIService.chat, AIService.chat_stream: walk     *)
(*                          available_models from the process-wide          *)
(*                          current_model_index, wrapping around.           *)
(*                                                                         *)
(* Every handler is an `async def` that never awaits, so the event loop     *)
(* runs it without interleaving; the async generators give the loop back   *)
(* only at a `yield`.  The variable `active` holds the request the event    *)
(* loop is running: each action below is one pass of a handler's loop body  *)
(* and, while `active` is set, only that request can step.                  *)
(***************************************************************************)
EXTENDS Integers, Sequences, FiniteSets, TLC

VARIABLES
    current_model_index,  \* AIService.current_model_index (the sticky index)
    req,                  \* the requests in flight, one record per slot
    active,               \* the request the event loop is running, or NoReq
    handoff,              \* history: candidate the last finished AIService
                          \* call leaves the next one to start at, or -1
    response_cache,       \* gateway: fingerprint -> cached reply
    last_request,         \* gateway: client -> time of its last accepted request
    now,                  \* the clock, in ticks
    first_reply,          \* history: text -> first stateless reply since the last clear
    accepted              \* history: client -> time it was last accepted

gwVars == <<response_cache, last_request, now, first_reply, accepted>>

vars == <<current_model_index, req, active, handoff, gwVars>>

----------------------------------------------------------------------------
(* Bounds of the model *)

MaxMsgLen == 2      \* longest message drawn
MaxChunks == 2      \* most chunks the backend delivers within one request
MaxTextLen == 3     \* length of the longest reply the backend gives
MaxTime == 6        \* last tick of the clock
TicksPerSecond == 2 \* resolution of the clock

Reqs == {"r1", "r2"}    \* request slots
NoReq == "none"
ApiReqs == {"r1"}       \* the slot the requests of POST /api/chat take

----------------------------------------------------------------------------
(* Configuration *)

available_models == <<"gemini-1.5-flash", "gemini-1.0-pro", "gemini-1.5-pro">>

chat_models_to_try ==
    <<"gemini-2.5-flash", "gemini-2.5-flash-lite", "gemini-3-flash">>

stream_models_to_try ==
    <<"gemini-2.0-flash", "gemini-2.5-flash-lite", "gemini-1.5-flash">>

num_models == Len(available_models)

\* Python lists are 0-based, TLA+ sequences 1-based.
ModelAt(models, idx) == models[idx + 1]

----------------------------------------------------------------------------
(* Messages: sequences of characters, so that strip() is computed *)

Chars == {" ", "a"}

\* the flood of the spec's scenario: "aaaaaaaaaaaa", 12 identical characters
SpamFloodLen == 12
SpamFlood == [k \in 1..SpamFloodLen |-> "a"]

\* ChatRequest.message: the short strings, and the flood
Messages == UNION {[1..n -> Chars] : n \in 0..MaxMsgLen} \cup {SpamFlood}

RECURSIVE LStrip(_)
LStrip(s) == IF s # <<>> /\ Head(s) = " " THEN LStrip(Tail(s)) ELSE s

RECURSIVE RStrip(_)
RStrip(s) ==
    IF s # <<>> /\ s[Len(s)] = " " THEN RStrip(SubSeq(s, 1, Len(s) - 1)) ELSE s

Strip(s) == RStrip(LStrip(s))

\* main.py: `not request.message or not request.message.strip()`
EmptyMessage(m) == m = <<>> \/ Strip(m) = <<>>

----------------------------------------------------------------------------
(* The Generation Backend: a call returns text or raises.  An error is the  *)
(* provider's kind of failure together with the substrings its lower-cased  *)
(* message holds, which is all the code looks at.                           *)

ErrQuota      == [kind |-> "quota",           marks |-> {"429", "quota"}]
ErrKey        == [kind |-> "invalid_key",     marks |-> {"400", "api key"}]
ErrSafety     == [kind |-> "blocked",         marks |-> {"safety", "blocked"}]
ErrInvalidArg == [kind |-> "invalid_request", marks |-> {"400", "invalid argument"}]
ErrServer     == [kind |-> "other",           marks |-> {"500"}]

Errors == {ErrQuota, ErrKey, ErrSafety, ErrInvalidArg, ErrServer}

NoError == [kind |-> "none", marks |-> {}]

\* the lengths of the replies drawn: a short one and a long one
TextLens == {1, MaxTextLen}

\* response.text of a successful call to a model: n characters
TextOf(model, n) == <<"text", model, n>>

TextLen(t) == t[3]

Texts == {TextOf(ModelAt(available_models, idx), n) :
            idx \in 0..(num_models - 1), n \in TextLens}

----------------------------------------------------------------------------
(* Error classification, by substring *)

\* ai_service.py: "429" in error_str or "quota" in error_str or
\*                "resource exhausted" in error_str
IsQuotaError(e) ==
    "429" \in e.marks \/ "quota" \in e.marks \/ "resource exhausted" \in e.marks

\* ai_service.py: "400" in error_str and "api key" in error_str
IsInvalidKey(e) == "400" \in e.marks /\ "api key" \in e.marks

\* main.py: "safety" in m or "blocked" in m or "invalid argument" in m
IsBlocked(e) ==
    "safety" \in e.marks \/ "blocked" \in e.marks \/ "invalid argument" \in e.marks

----------------------------------------------------------------------------
(* The gateway of POST /api/chat (the endpoint test_backend.py posts to).  *)
(* Its handler is not among the sources; the response cache and the rate   *)
(* limiter below follow the specification's sections 4.2 to 4.4.           *)

Clients == {"c1", "c2"}
Never == -1

ApiMessages == {<<>>, <<" ">>, <<"a">>, <<" ", "A">>}

LowerChar(c) == IF c = "A" THEN "a" ELSE c

Lower(m) == [k \in 1..Len(m) |-> LowerChar(m[k])]

\* the normalized text of a message
Normalized(m) == Lower(Strip(m))

\* faulty variant: the fingerprint keeps the case of the letters
FingerprintCaseSensitive(m) == Strip(m)

\* 4.2: case-insensitive, whitespace-trimmed hash of the message text; the
\* digest is identified with the text it is taken of (no collisions)
Fingerprint(m) == Lower(Strip(m))

Fingerprints == {Strip(m) : m \in ApiMessages} \cup {Normalized(m) : m \in ApiMessages}

NoText == <<>>

\* 4.2: entries are stored only if the text is shorter than the ceiling
CacheMaxLen == 3

Cacheable(text) == TextLen(text) < CacheMaxLen

\* 4.3: the cooldown window, in seconds and in ticks
CooldownSeconds == 3

CooldownTicks == CooldownSeconds * TicksPerSecond

\* 4.3: the table is wiped once it holds more records than this
RateTableMax == 1

Records(table) == {c \in Clients : table[c] # Never}

Pruned(table) == Cardinality(Records(table)) > RateTableMax

Prune(table) == IF Pruned(table) THEN [c \in Clients |-> Never] ELSE table

\* 4.3: a second request within the cooldown window of the previous one
Limited(table, c, t) == table[c] # Never /\ t - table[c] < CooldownTicks

\* faulty variant: the residual window is rounded down
RetryAfterFloor(residual) == residual \div TicksPerSecond

\* 4.3: the remaining wait in seconds, ceiling of the residual window
RetryAfter(residual) == (residual + TicksPerSecond - 1) \div TicksPerSecond

PleaseWait(w) == <<"Please wait", w>>

----------------------------------------------------------------------------
(* Requests *)

IdleReq ==
    [ep |-> "none", pc |-> "idle", msg |-> <<>>, hasKey |-> TRUE,
     start |-> 0, i |-> 0, idx |-> 0,
     calls |-> <<>>,           \* the candidates tried, and how each try ended
     last_error |-> NoError,
     nchunks |-> 0, sent |-> <<>>, out |-> <<>>,
     status |-> 0, body |-> <<>>, expect |-> -1,
     client |-> "none", hist |-> FALSE, elapsed |-> -1, wipedBefore |-> FALSE,
     prior |-> <<>>, wait |-> 0,
     closed |-> FALSE]         \* the consumer closed the stream

Init ==
    /\ current_model_index = 0
    /\ req = [r \in Reqs |-> IdleReq]
    /\ active = NoReq
    /\ handoff = -1
    /\ response_cache = [k \in Fingerprints |-> NoText]
    /\ last_request = [c \in Clients |-> Never]
    /\ now = 0
    /\ first_reply = [k \in Fingerprints |-> NoText]
    /\ accepted = [c \in Clients |-> Never]

\* What closing a suspended generator throws into it at its `yield`.
GeneratorExit == [kind |-> "generator_exit", marks |-> {}]

\* faulty variant: the clause is `except BaseException`
CatchesBaseException(e) == TRUE

\* main.py 233, ai_service.py 151: `except Exception`; GeneratorExit derives
\* from BaseException, not from Exception
Catches(e) == e.kind # "generator_exit"

\* A request arrives.  Requests are served one after the other: a slot is
\* taken only when no other request is in flight.
Arrive(r, ep, m, k) ==
    /\ active = NoReq
    /\ \A q \in Reqs : req[q].pc = "idle"
    /\ req' = [req EXCEPT ![r] = [IdleReq EXCEPT !.ep = ep, !.pc = "received",
                                                 !.msg = m, !.hasKey = k]]
    /\ UNCHANGED <<current_model_index, active, handoff>>
    /\ UNCHANGED gwVars

\* A call of ai_service.chat or ai_service.chat_stream is made while another
\* may be suspended at a yield: the event loop is free, the slot is free.
ArriveConcurrent(r, ep) ==
    /\ active = NoReq
    /\ req[r].pc = "idle"
    /\ req' = [req EXCEPT ![r] = [IdleReq EXCEPT !.ep = ep, !.pc = "received",
                                                 !.msg = <<"a">>]]
    /\ UNCHANGED <<current_model_index, active, handoff>>
    /\ UNCHANGED gwVars

\* The response has been delivered; the slot is free again.
Retire(r) ==
    /\ req[r].pc = "done"
    /\ active = NoReq
    /\ req' = [req EXCEPT ![r] = IdleReq]
    /\ UNCHANGED <<current_model_index, active, handoff>>
    /\ UNCHANGED gwVars

Respond(q, status, body) == [q EXCEPT !.pc = "done", !.status = status, !.body = body]

----------------------------------------------------------------------------
(* main.py: POST /chat *)

EmptyDetail    == <<"Message cannot be empty">>
NoKeyDetail    == <<"Gemini API key not configured">>
BlockedDetail(e) == <<"Content blocked or invalid request", e.kind>>
AllFailedDetail(e) == <<"All available Gemini models failed. Last error", e.kind>>

ChatRejectStatus == 400
ChatNoKeyStatus == 500
ChatBlockedStatus == 400
\* faulty variant: the exhausted loop answers like a blocked request
ChatExhaustedStatusWrong == ChatBlockedStatus

ChatExhaustedStatus == 502

\* faulty variant: the credential is taken as present
KeyMissingNever(q) == FALSE

\* lines 142-143, 199-200: `if not api_key`
KeyMissing(q) == ~q.hasKey

\* lines 53-149: validation, then the loop is entered
ChatBegin(r) ==
    /\ req[r].ep = "chat" /\ req[r].pc = "received" /\ active = NoReq
    /\ IF EmptyMessage(req[r].msg)
         THEN /\ req' = [req EXCEPT ![r] = Respond(@, ChatRejectStatus, EmptyDetail)]
              /\ UNCHANGED active
         ELSE IF KeyMissing(req[r])
         THEN /\ req' = [req EXCEPT ![r] = Respond(@, ChatNoKeyStatus, NoKeyDetail)]
              /\ UNCHANGED active
         ELSE /\ req' = [req EXCEPT ![r].pc = "loop", ![r].i = 0]
              /\ active' = r
    /\ UNCHANGED <<current_model_index, handoff>>
    /\ UNCHANGED gwVars

\* lines 153-188: one pass of `for model_name in models_to_try`
ChatOnSuccess(q, idx, n) ==
    Respond([q EXCEPT !.calls = Append(@, [cand |-> idx, res |-> "ok"])],
            200, <<TextOf(ModelAt(chat_models_to_try, idx), n),
                   ModelAt(chat_models_to_try, idx)>>)

\* faulty variant: last_error keeps the first error of the request
ChatOnErrorKeepFirst(q, idx, e) ==
    LET q1 == [q EXCEPT !.calls = Append(@, [cand |-> idx, res |-> e.kind]),
                        !.last_error = IF @ = NoError THEN e ELSE @]
    IN IF IsBlocked(e)
         THEN Respond(q1, ChatBlockedStatus, BlockedDetail(e))
         ELSE [q1 EXCEPT !.i = @ + 1]

\* lines 175-188: the except clause of chat
ChatOnError(q, idx, e) ==
    LET q1 == [q EXCEPT !.calls = Append(@, [cand |-> idx, res |-> e.kind]),
                        !.last_error = e]
    IN IF IsBlocked(e)
         THEN Respond(q1, ChatBlockedStatus, BlockedDetail(e))
         ELSE [q1 EXCEPT !.i = @ + 1]

ChatAttempt(r) ==
    /\ req[r].ep = "chat" /\ req[r].pc = "loop" /\ active = r
    /\ req[r].i < Len(chat_models_to_try)
    /\ \/ \E n \in TextLens : req' = [req EXCEPT ![r] = ChatOnSuccess(@, req[r].i, n)]
       \/ \E e \in Errors : req' = [req EXCEPT ![r] = ChatOnError(@, req[r].i, e)]
    /\ active' = IF req'[r].pc = "done" THEN NoReq ELSE r
    /\ UNCHANGED <<current_model_index, handoff>>
    /\ UNCHANGED gwVars

\* lines 190-194: the loop ran out
ChatExhausted(r) ==
    /\ req[r].ep = "chat" /\ req[r].pc = "loop" /\ active = r
    /\ req[r].i = Len(chat_models_to_try)
    /\ req' = [req EXCEPT ![r] =
                 Respond(@, ChatExhaustedStatus, AllFailedDetail(req[r].last_error))]
    /\ active' = NoReq
    /\ UNCHANGED <<current_model_index, handoff>>
    /\ UNCHANGED gwVars

----------------------------------------------------------------------------
(* main.py: POST /chat/stream *)

StreamNoKeyStatus == 500
StreamOkStatus == 200

\* line 216 reads `system_instruction`, a local of chat() that is bound
\* neither in generate(), nor in chat_stream(), nor at module level:
\* evaluating the argument raises NameError before the model is built.
NameError == [kind |-> "name_error", marks |-> {"system_instruction"}]

\* line 231, which no run reaches
TextEvent(idx, n) == <<"data", "text", idx, n>>
ErrorEvent == <<"data", "error", "All models failed">>

\* lines 199-209, 238: the key check, then StreamingResponse(generate())
StreamBegin(r) ==
    /\ req[r].ep = "chat_stream" /\ req[r].pc = "received" /\ active = NoReq
    /\ IF KeyMissing(req[r])
         THEN req' = [req EXCEPT ![r] = Respond(@, StreamNoKeyStatus, NoKeyDetail)]
         ELSE req' = [req EXCEPT ![r].pc = "created", ![r].status = StreamOkStatus]
    /\ UNCHANGED <<current_model_index, active, handoff>>
    /\ UNCHANGED gwVars

\* the response body is iterated: generate() starts running
GenBegin(r) ==
    /\ req[r].ep = "chat_stream" /\ req[r].pc = "created" /\ active = NoReq
    /\ req' = [req EXCEPT ![r].pc = "loop", ![r].i = 0]
    /\ active' = r
    /\ UNCHANGED <<current_model_index, handoff>>
    /\ UNCHANGED gwVars

\* lines 212-235: one pass of the loop; `except Exception` takes the
\* NameError and goes on to the next model
GenOnError(q, idx, e) ==
    [q EXCEPT !.calls = Append(@, [cand |-> idx, res |-> e.kind]),
              !.last_error = e, !.i = @ + 1]

GenAttempt(r) ==
    /\ req[r].ep = "chat_stream" /\ req[r].pc = "loop" /\ active = r
    /\ req[r].i < Len(stream_models_to_try)
    /\ req' = [req EXCEPT ![r] = GenOnError(@, req[r].i, NameError)]
    /\ UNCHANGED <<current_model_index, active, handoff>>
    /\ UNCHANGED gwVars

\* line 236: the loop ran out; the error event is yielded
GenExhausted(r) ==
    /\ req[r].ep = "chat_stream" /\ req[r].pc = "loop" /\ active = r
    /\ req[r].i = Len(stream_models_to_try)
    /\ req' = [req EXCEPT ![r].out = Append(@, ErrorEvent), ![r].pc = "final"]
    /\ active' = NoReq
    /\ UNCHANGED <<current_model_index, handoff>>
    /\ UNCHANGED gwVars

\* the caller disconnects while generate() is suspended at line 236, which
\* is outside the try statement: GeneratorExit ends the generator
GenClose(r) ==
    /\ req[r].ep = "chat_stream" /\ req[r].pc = "final" /\ active = NoReq
    /\ req' = [req EXCEPT ![r].closed = TRUE, ![r].pc = "done"]
    /\ UNCHANGED <<current_model_index, active, handoff>>
    /\ UNCHANGED gwVars

\* resumed after its last yield, the generator ends
GenFinish(r) ==
    /\ req[r].ep = "chat_stream" /\ req[r].pc = "final" /\ active = NoReq
    /\ req' = [req EXCEPT ![r].pc = "done"]
    /\ UNCHANGED <<current_model_index, active, handoff>>
    /\ UNCHANGED gwVars

----------------------------------------------------------------------------
(* ai_service.py: AIService *)

KeyErrorText == <<"Error: The GEMINI_API_KEY provided in the backend .env is invalid. Please check your API key.">>
OverloadedText == <<"The AI is currently overloaded. Please try again in 1 minute.">>
StreamOverloadedText == <<"Error: The AI is currently overloaded. Please try again later.">>

\* faulty variant: the loop counter is left out of the index
CandidateAtStuck(start, i) == start % num_models

\* faulty variant: the index is computed from the shared sticky index, not
\* from the copy taken when the call started
CandidateAtShared(start, i) == (current_model_index + i) % num_models

\* faulty variant: the index is clamped to the end of the list instead of
\* wrapping around
CandidateAtNoWrap(start, i) ==
    IF start + i < num_models THEN start + i ELSE num_models - 1

\* lines 66, 121: idx = (start_index + i) % num_models
CandidateAt(start, i) == (start + i) % num_models

\* faulty variant: the index is not wrapped around
NextStickyNoWrap(idx) == idx + 1

\* faulty variant: the index is left on the exhausted candidate
NextStickyStuck(idx) == idx % num_models

\* lines 96, 156: self.current_model_index = (idx + 1) % num_models
NextSticky(idx) == (idx + 1) % num_models

\* history: what the finished call leaves for the next one to start from:
\* the candidate it fell back to after one quota failure, or the candidate
\* it started at when every candidate failed with a quota error
Handoff(q) ==
    IF /\ Len(q.calls) = 2
       /\ q.calls[1].res = "quota"
       /\ q.calls[2].res = "ok"
      THEN q.calls[2].cand
    ELSE IF /\ Len(q.calls) = num_models
            /\ \A k \in 1..Len(q.calls) : q.calls[k].res = "quota"
      THEN q.start
      ELSE -1

Called(q, idx, res) == [q EXCEPT !.idx = idx, !.calls = Append(@, [cand |-> idx, res |-> res])]

\* lines 61-62, 116-117: start_index = self.current_model_index
SvcBegin(r, ep) ==
    /\ req[r].ep = ep /\ req[r].pc = "received" /\ active = NoReq
    /\ req' = [req EXCEPT ![r].pc = "loop", ![r].i = 0,
                          ![r].start = current_model_index,
                          ![r].expect = handoff]
    /\ active' = r
    /\ handoff' = -1
    /\ UNCHANGED current_model_index
    /\ UNCHANGED gwVars

SvcChatBegin(r) == SvcBegin(r, "svc_chat")

\* AIService.chat returns a string: to its caller when called directly, to
\* the gateway's handler when the request came through POST /api/chat
Return(q, text) ==
    IF q.ep = "api_chat" THEN [q EXCEPT !.pc = "returned", !.body = text]
                         ELSE Respond(q, 0, text)

\* lines 88-89: return response.text
SvcChatOnSuccess(q, idx, n) ==
    Return(Called(q, idx, "ok"), TextOf(ModelAt(available_models, idx), n))

\* lines 91-106: the except clause of AIService.chat
SvcChatOnError(q, idx, e) ==
    LET q1 == Called(q, idx, e.kind)
    IN IF IsQuotaError(e) THEN [q1 EXCEPT !.i = @ + 1]
       ELSE IF IsInvalidKey(e) THEN Return(q1, KeyErrorText)
       ELSE [q1 EXCEPT !.i = @ + 1]

\* faulty variant: every failure moves the sticky index
StickyAfterAnyFailure(sticky, idx, e) == NextSticky(idx)

\* lines 93-96, 153-156: the sticky index after a failure on candidate idx
StickyAfter(sticky, idx, e) == IF IsQuotaError(e) THEN NextSticky(idx) ELSE sticky

\* lines 64-106: one pass of `for i in range(num_models)`
SvcChatAttempt(r) ==
    /\ req[r].ep \in {"svc_chat", "api_chat"} /\ req[r].pc = "loop" /\ active = r
    /\ req[r].i < num_models
    /\ LET idx == CandidateAt(req[r].start, req[r].i)
       IN \/ /\ \E n \in TextLens : req' = [req EXCEPT ![r] = SvcChatOnSuccess(@, idx, n)]
             /\ UNCHANGED current_model_index
          \/ \E e \in Errors :
                /\ req' = [req EXCEPT ![r] = SvcChatOnError(@, idx, e)]
                /\ current_model_index' = StickyAfter(current_model_index, idx, e)
    /\ active' = IF req'[r].pc = "done" THEN NoReq ELSE r
    /\ handoff' = IF req'[r].pc = "done" THEN Handoff(req'[r]) ELSE handoff
    /\ UNCHANGED gwVars

\* lines 108-109: the loop ran out
SvcChatExhausted(r) ==
    /\ req[r].ep \in {"svc_chat", "api_chat"} /\ req[r].pc = "loop" /\ active = r
    /\ req[r].i = num_models
    /\ req' = [req EXCEPT ![r] = Return(@, OverloadedText)]
    /\ active' = IF req'[r].pc = "done" THEN NoReq ELSE r
    /\ handoff' = IF req'[r].pc = "done" THEN Handoff(req'[r]) ELSE handoff
    /\ UNCHANGED current_model_index
    /\ UNCHANGED gwVars

\* AIService.chat_stream is an async generator: nothing of it runs before
\* its first __anext__, where start_index is read.
SvcStreamBegin(r) == SvcBegin(r, "svc_stream")

Fragment(idx, n) == <<"chunk", idx, n>>

SetLast(q, res) == [q EXCEPT !.calls[Len(q.calls)].res = res]

\* lines 151-165: the except clause of AIService.chat_stream
SvcStreamOnError(q, e) ==
    LET q1 == SetLast(q, e.kind)
    IN IF IsQuotaError(e) THEN [q1 EXCEPT !.i = @ + 1, !.pc = "loop"]
       ELSE IF IsInvalidKey(e)
         THEN [q1 EXCEPT !.out = Append(@, KeyErrorText), !.pc = "final"]
       ELSE [q1 EXCEPT !.i = @ + 1, !.pc = "loop"]

\* lines 119-142: one pass of the loop up to chat.send_message(stream=True),
\* which raises or hands back the response iterator
SvcStreamAttempt(r) ==
    /\ req[r].ep = "svc_stream" /\ req[r].pc = "loop" /\ active = r
    /\ req[r].i < num_models
    /\ LET idx == CandidateAt(req[r].start, req[r].i)
           q0 == Called(req[r], idx, "pending")
       IN \/ /\ req' = [req EXCEPT ![r] = [q0 EXCEPT !.pc = "iter"]]
             /\ UNCHANGED current_model_index
          \/ \E e \in Errors :
                /\ req' = [req EXCEPT ![r] = SvcStreamOnError(q0, e)]
                /\ current_model_index' = StickyAfter(current_model_index, idx, e)
    /\ active' = IF req'[r].pc = "final" THEN NoReq ELSE r
    /\ UNCHANGED handoff
    /\ UNCHANGED gwVars

\* lines 145-147: `for chunk in response: if chunk.text: yield chunk.text`
\* what is yielded for the n-th chunk of candidate idx
Forwarded(idx, n) == Fragment(idx, n)

SvcStreamChunk(r) ==
    /\ req[r].ep = "svc_stream" /\ req[r].pc = "iter" /\ active = r
    /\ req[r].nchunks < MaxChunks
    /\ LET n == req[r].nchunks + 1
       IN \/ /\ req' = [req EXCEPT ![r].nchunks = n]          \* chunk.text == ""
             /\ UNCHANGED active
          \/ /\ req' = [req EXCEPT ![r].nchunks = n,
                          ![r].sent = Append(@, Fragment(req[r].idx, n)),
                          ![r].out = Append(@, Forwarded(req[r].idx, n)),
                          ![r].pc = "yielded"]
             /\ active' = NoReq
    /\ UNCHANGED <<current_model_index, handoff>>
    /\ UNCHANGED gwVars

\* the consumer asks for the next item: the generator goes on after `yield`
SvcStreamResume(r) ==
    /\ req[r].ep = "svc_stream" /\ req[r].pc = "yielded" /\ active = NoReq
    /\ req' = [req EXCEPT ![r].pc = "iter"]
    /\ active' = r
    /\ UNCHANGED <<current_model_index, handoff>>
    /\ UNCHANGED gwVars

\* line 149: the iterator is exhausted; `return`
SvcStreamEnd(r) ==
    /\ req[r].ep = "svc_stream" /\ req[r].pc = "iter" /\ active = r
    /\ req' = [req EXCEPT ![r] = [SetLast(@, "ok") EXCEPT !.pc = "done"]]
    /\ active' = NoReq
    /\ handoff' = Handoff(req'[r])
    /\ UNCHANGED current_model_index
    /\ UNCHANGED gwVars

\* lines 145-165: the iterator raises between two chunks
SvcStreamRaise(r) ==
    /\ req[r].ep = "svc_stream" /\ req[r].pc = "iter" /\ active = r
    /\ \E e \in Errors :
          /\ req' = [req EXCEPT ![r] = SvcStreamOnError(@, e)]
          /\ current_model_index' = StickyAfter(current_model_index, req[r].idx, e)
    /\ active' = IF req'[r].pc = "final" THEN NoReq ELSE r
    /\ UNCHANGED handoff
    /\ UNCHANGED gwVars

\* lines 167-168: the loop ran out; the overload text is yielded
SvcStreamExhausted(r) ==
    /\ req[r].ep = "svc_stream" /\ req[r].pc = "loop" /\ active = r
    /\ req[r].i = num_models
    /\ req' = [req EXCEPT ![r].out = Append(@, StreamOverloadedText), ![r].pc = "final"]
    /\ active' = NoReq
    /\ UNCHANGED <<current_model_index, handoff>>
    /\ UNCHANGED gwVars

\* the consumer closes the generator while it is suspended: at line 147,
\* inside the try statement, or at lines 161, 168, outside its try block.
\* GeneratorExit is raised at the yield.
SvcStreamClose(r) ==
    /\ req[r].ep = "svc_stream" /\ req[r].pc \in {"yielded", "final"} /\ active = NoReq
    /\ LET q == [req[r] EXCEPT !.closed = TRUE]
       IN req' = [req EXCEPT ![r] =
                    IF req[r].pc = "yielded" /\ Catches(GeneratorExit)
                      THEN SvcStreamOnError(q, GeneratorExit)
                      ELSE [q EXCEPT !.pc = "done"]]
    /\ active' = IF req'[r].pc = "loop" THEN r ELSE NoReq
    /\ UNCHANGED <<current_model_index, handoff>>
    /\ UNCHANGED gwVars

\* resumed after its last yield (line 162 `return`, or the end of the body)
SvcStreamFinish(r) ==
    /\ req[r].ep = "svc_stream" /\ req[r].pc = "final" /\ active = NoReq
    /\ req' = [req EXCEPT ![r].pc = "done"]
    /\ handoff' = Handoff(req'[r])
    /\ UNCHANGED <<current_model_index, active>>
    /\ UNCHANGED gwVars

----------------------------------------------------------------------------
(* POST /api/chat: rate limiter, cache, AIService.chat *)

Tick ==
    /\ now < MaxTime
    /\ active = NoReq
    /\ \A q \in Reqs : req[q].pc = "idle"
    /\ now' = now + 1
    /\ UNCHANGED <<current_model_index, req, active, handoff, response_cache,
                   last_request, first_reply, accepted>>

ApiRequest(c, m, h, pc) ==
    [IdleReq EXCEPT !.ep = "api_chat", !.pc = pc, !.msg = m, !.client = c, !.hist = h]

\* a request of client c reaches the middleware
ApiArrive(r, c, m, h) ==
    /\ active = NoReq
    /\ \A q \in Reqs : req[q].pc = "idle"
    /\ req' = [req EXCEPT ![r] = ApiRequest(c, m, h, "received")]
    /\ UNCHANGED <<current_model_index, active, handoff, gwVars>>

\* a request the middleware has let through reaches the handler
ApiArriveAdmitted(r, c, m, h) ==
    /\ active = NoReq
    /\ \A q \in Reqs : req[q].pc = "idle"
    /\ req' = [req EXCEPT ![r] = ApiRequest(c, m, h, "admitted")]
    /\ UNCHANGED <<current_model_index, active, handoff, gwVars>>

\* 4.3 admit(client_id, now): wipe the table if it grew past the threshold,
\* then reject inside the cooldown window, else record the request
Admit(r) ==
    /\ req[r].ep = "api_chat" /\ req[r].pc = "received" /\ active = NoReq
    /\ LET c == req[r].client
           table == Prune(last_request)
           \* history: the time since c was last accepted, and whether the
           \* record of that request has been wiped since
           q0 == [req[r] EXCEPT
                    !.elapsed = IF accepted[c] = Never THEN -1 ELSE now - accepted[c],
                    !.wipedBefore = accepted[c] # Never /\ table[c] = Never]
       IN IF Limited(table, c, now)
            THEN /\ req' = [req EXCEPT ![r] =
                      Respond([q0 EXCEPT !.wait = RetryAfter(CooldownTicks - (now - table[c]))],
                              200, PleaseWait(RetryAfter(CooldownTicks - (now - table[c]))))]
                 /\ last_request' = table
                 /\ UNCHANGED accepted
            ELSE /\ req' = [req EXCEPT ![r] = [q0 EXCEPT !.pc = "admitted"]]
                 /\ last_request' = [table EXCEPT ![c] = now]
                 /\ accepted' = [accepted EXCEPT ![c] = now]
    /\ UNCHANGED <<current_model_index, active, handoff, response_cache, now, first_reply>>

\* 4.4 SPAM_CHECK, CACHE_LOOKUP, then MODEL_FALLBACK: ai_service.chat is
\* entered and reads start_index
ApiBegin(r) ==
    /\ req[r].ep = "api_chat" /\ req[r].pc = "admitted" /\ active = NoReq
    /\ LET fp == Fingerprint(req[r].msg)
           q0 == [req[r] EXCEPT !.prior = IF req[r].hist THEN NoText
                                          ELSE first_reply[Normalized(req[r].msg)]]
       IN IF EmptyMessage(req[r].msg)
            THEN /\ req' = [req EXCEPT ![r] = Respond(q0, 400, EmptyDetail)]
                 /\ UNCHANGED active
          ELSE IF ~req[r].hist /\ response_cache[fp] # NoText
            THEN /\ req' = [req EXCEPT ![r] = Respond(q0, 200, response_cache[fp])]
                 /\ UNCHANGED active
          ELSE /\ req' = [req EXCEPT ![r] =
                            [q0 EXCEPT !.pc = "loop", !.i = 0,
                                       !.start = current_model_index]]
               /\ active' = r
    /\ UNCHANGED <<current_model_index, handoff, gwVars>>

\* 4.4 CACHE_STORE, RESPOND: what the handler does with the string that
\* ai_service.chat returned
ApiFinish(r) ==
    /\ req[r].ep = "api_chat" /\ req[r].pc = "returned" /\ active = r
    /\ LET text == req[r].body
           fp == Fingerprint(req[r].msg)
           key == Normalized(req[r].msg)
       IN IF text = OverloadedText
            THEN /\ req' = [req EXCEPT ![r] = Respond(@, 502, text)]
                 /\ UNCHANGED <<response_cache, first_reply>>
          ELSE IF text = KeyErrorText
            THEN /\ req' = [req EXCEPT ![r] = Respond(@, 500, text)]
                 /\ UNCHANGED <<response_cache, first_reply>>
          ELSE /\ req' = [req EXCEPT ![r] = Respond(@, 200, text)]
               /\ response_cache' =
                     IF ~req[r].hist /\ Cacheable(text)
                       THEN [response_cache EXCEPT ![fp] = text]
                       ELSE response_cache
               /\ first_reply' =
                     IF ~req[r].hist /\ first_reply[key] = NoText
                       THEN [first_reply EXCEPT ![key] = text]
                       ELSE first_reply
    /\ active' = NoReq
    /\ UNCHANGED <<current_model_index, handoff, last_request, now, accepted>>

\* 2 (CacheEntry): entries leave the cache only when the whole cache is
\* cleared; the clear happens between two runs of the handler
CacheClear ==
    /\ active = NoReq
    /\ \E k \in Fingerprints : response_cache[k] # NoText \/ first_reply[k] # NoText
    /\ response_cache' = [k \in Fingerprints |-> NoText]
    /\ first_reply' = [k \in Fingerprints |-> NoText]
    /\ UNCHANGED <<current_model_index, req, active, handoff, last_request, now, accepted>>

----------------------------------------------------------------------------

Next ==
    \/ \E r \in Reqs, m \in Messages, k \in BOOLEAN : Arrive(r, "chat", m, k)
    \/ \E r \in Reqs, m \in Messages, k \in BOOLEAN : Arrive(r, "chat_stream", m, k)
    \/ \E r \in Reqs, ep \in {"svc_chat", "svc_stream"} : Arrive(r, ep, <<"a">>, TRUE)
    \/ \E r \in Reqs : ChatBegin(r)
    \/ \E r \in Reqs : ChatAttempt(r)
    \/ \E r \in Reqs : ChatExhausted(r)
    \/ \E r \in Reqs : StreamBegin(r)
    \/ \E r \in Reqs : GenBegin(r)
    \/ \E r \in Reqs : GenAttempt(r)
    \/ \E r \in Reqs : GenExhausted(r)
    \/ \E r \in Reqs : GenFinish(r)
    \/ \E r \in Reqs : GenClose(r)
    \/ \E r \in Reqs : SvcChatBegin(r)
    \/ \E r \in Reqs : SvcChatAttempt(r)
    \/ \E r \in Reqs : SvcChatExhausted(r)
    \/ \E r \in Reqs : SvcStreamBegin(r)
    \/ \E r \in Reqs : SvcStreamAttempt(r)
    \/ \E r \in Reqs : SvcStreamChunk(r)
    \/ \E r \in Reqs : SvcStreamResume(r)
    \/ \E r \in Reqs : SvcStreamEnd(r)
    \/ \E r \in Reqs : SvcStreamRaise(r)
    \/ \E r \in Reqs : SvcStreamExhausted(r)
    \/ \E r \in Reqs : SvcStreamFinish(r)
    \/ \E r \in Reqs : SvcStreamClose(r)
    \/ \E r \in Reqs : Retire(r)

Spec == Init /\ [][Next]_vars

\* the handler of POST /api/chat, for requests the rate limiter let through
NextCache ==
    \/ \E r \in ApiReqs, m \in ApiMessages, h \in BOOLEAN : ApiArriveAdmitted(r, "c1", m, h)
    \/ \E r \in ApiReqs : ApiBegin(r)
    \/ \E r \in ApiReqs : SvcChatAttempt(r)
    \/ \E r \in ApiReqs : SvcChatExhausted(r)
    \/ \E r \in ApiReqs : ApiFinish(r)
    \/ \E r \in ApiReqs : Retire(r)
    \/ CacheClear

SpecCache == Init /\ [][NextCache]_vars

\* the rate limiter in front of POST /api/chat; the requests carry a
\* conversation history, so the cache is not used
NextLimiter ==
    \/ Tick
    \/ \E r \in ApiReqs, c \in Clients : ApiArrive(r, c, <<"a">>, TRUE)
    \/ \E r \in ApiReqs : Admit(r)
    \/ \E r \in ApiReqs : ApiBegin(r)
    \/ \E r \in ApiReqs : SvcChatAttempt(r)
    \/ \E r \in ApiReqs : SvcChatExhausted(r)
    \/ \E r \in ApiReqs : ApiFinish(r)
    \/ \E r \in ApiReqs : Retire(r)

SpecLimiter == Init /\ [][NextLimiter]_vars

\* The calls of the one AIService instance, interleaved at the yields of
\* chat_stream.  What is explored: backends that answer in one chunk, or
\* fail with a quota or an invalid-key error; a finished call is forgotten
\* before anything else runs.
ConcurrentScope ==
    \A r \in Reqs :
        /\ req[r].nchunks <= 1
        /\ req[r].body \in Texts => TextLen(req[r].body) = 1
        /\ \A k \in 1..Len(req[r].calls) :
              req[r].calls[k].res \in {"pending", "ok", "quota", "invalid_key"}

NoneDone == \A q \in Reqs : req[q].pc # "done"

Interleaved(A) == NoneDone /\ A /\ ConcurrentScope'

NextConcurrent ==
    \/ \E r \in Reqs : Interleaved(ArriveConcurrent(r, "svc_chat"))
    \/ \E r \in Reqs : Interleaved(ArriveConcurrent(r, "svc_stream"))
    \/ \E r \in Reqs : Interleaved(SvcChatBegin(r))
    \/ \E r \in Reqs : Interleaved(SvcChatAttempt(r))
    \/ \E r \in Reqs : Interleaved(SvcChatExhausted(r))
    \/ \E r \in Reqs : Interleaved(SvcStreamBegin(r))
    \/ \E r \in Reqs : Interleaved(SvcStreamAttempt(r))
    \/ \E r \in Reqs : Interleaved(SvcStreamChunk(r))
    \/ \E r \in Reqs : Interleaved(SvcStreamResume(r))
    \/ \E r \in Reqs : Interleaved(SvcStreamEnd(r))
    \/ \E r \in Reqs : Interleaved(SvcStreamRaise(r))
    \/ \E r \in Reqs : Interleaved(SvcStreamExhausted(r))
    \/ \E r \in Reqs : Interleaved(SvcStreamFinish(r))
    \/ \E r \in Reqs : Interleaved(SvcStreamClose(r))
    \/ \E r \in Reqs : Retire(r)

SpecConcurrent == Init /\ [][NextConcurrent]_vars

----------------------------------------------------------------------------
(* Vocabulary of the properties *)

Gateway == {"chat", "chat_stream"}
Service == {"svc_chat", "svc_stream"}

Handled(q) == q.pc \notin {"idle", "received"}

\* the tries that reached the Generation Backend
BackendCalls(q) == SelectSeq(q.calls, LAMBDA c : c.res # "name_error")

Failed(res) == res \notin {"ok", "pending"}

Cands(q) == {q.calls[k].cand : k \in 1..Len(q.calls)}

InOut(q, x) == \E k \in 1..Len(q.out) : q.out[k] = x

\* the request ended with the "all models exhausted" outcome
Exhausted(q) ==
    \/ q.ep = "chat" /\ q.pc = "done" /\ q.status = 502
    \/ q.ep = "chat_stream" /\ InOut(q, ErrorEvent)
    \/ q.ep = "svc_chat" /\ q.pc = "done" /\ q.body = OverloadedText
    \/ q.ep = "svc_stream" /\ InOut(q, StreamOverloadedText)

\* the request ended as a normal completion carrying a model's text
Completed(q) ==
    \/ q.ep = "chat" /\ q.pc = "done" /\ q.status = 200
    \/ q.ep = "svc_chat" /\ q.pc = "done"
         /\ q.body \in Texts
    \/ q.ep \in {"chat_stream", "svc_stream"} /\ q.pc = "done"
         /\ q.calls # <<>> /\ q.calls[Len(q.calls)].res = "ok"

----------------------------------------------------------------------------
(* C1: a request whose message is empty or only whitespace is rejected     *)
(* with HTTP 400 by POST /chat and by POST /chat/stream, and no call to    *)
(* the Generation Backend is made for it.                                  *)
C1_EmptyRejected ==
    \A r \in Reqs :
        (req[r].ep \in Gateway /\ EmptyMessage(req[r].msg) /\ Handled(req[r]))
            => /\ req[r].pc = "done"
               /\ req[r].status = 400
               /\ BackendCalls(req[r]) = <<>>

AllQuota(q) ==
    /\ Len(q.calls) = num_models
    /\ Cands(q) = 0..(num_models - 1)
    /\ \A k \in 1..Len(q.calls) : q.calls[k].res = "quota"

C3_AllQuotaIsExhausted ==
    \A r \in Reqs :
        (req[r].pc = "done" /\ AllQuota(req[r]))
            => /\ req[r].ep = "chat" =>
                    /\ req[r].status = 502
                    /\ req[r].body = AllFailedDetail(ErrQuota)
               /\ req[r].ep = "svc_chat" => req[r].body = OverloadedText
               /\ Exhausted(req[r])
               /\ ~Completed(req[r])

C3_Witness ==
    \E r \in Reqs :
        /\ req[r].ep = "chat" /\ req[r].pc = "done" /\ AllQuota(req[r])
        /\ req[r].status = 502

(* C4 as stated: a stateless request whose normalized text was answered    *)
(* before (since the cache was last cleared) is answered from the cache    *)
(* with the same text, without a call to the backend.                      *)
Stateless(q) == q.ep = "api_chat" /\ ~q.hist /\ q.pc = "done" /\ q.status # 400

InWindow(q) ==
    /\ q.ep = "api_chat" /\ q.pc \notin {"idle", "received"}
    /\ q.elapsed >= 0 /\ q.elapsed < CooldownTicks

RejectedWithWait(q) ==
    /\ q.pc = "done" /\ q.calls = <<>>
    /\ q.body = PleaseWait(q.wait)
    /\ 0 < q.wait /\ q.wait <= CooldownSeconds

C6_NoSwitchAfterFragment ==
    \A r \in Reqs :
        req[r].ep \in {"chat_stream", "svc_stream"} =>
            \A k \in 1..Len(req[r].calls) :
                (\E n \in 1..Len(req[r].sent) : req[r].sent[n][2] = req[r].calls[k].cand)
                    => k = Len(req[r].calls)

(* C7: when the stream of the candidate that ends the request succeeds,    *)
(* the caller has received exactly the non-empty fragments of that stream, *)
(* in order, one item per fragment, and no error item.                     *)
C7_ExactlyTheFragments ==
    \A r \in Reqs :
        (req[r].ep \in {"chat_stream", "svc_stream"} /\ Completed(req[r]))
            => LET last == req[r].calls[Len(req[r].calls)].cand
               IN req[r].out = SelectSeq(req[r].sent, LAMBDA f : f[2] = last)

(* C8: a request ends with the "all models exhausted" outcome only if      *)
(* every candidate of the list was tried in that request and every try     *)
(* failed.                                                                 *)
C8_ExhaustedOnlyIfAllFailed ==
    \A r \in Reqs :
        Exhausted(req[r]) =>
            /\ Len(req[r].calls) = num_models
            /\ Cands(req[r]) = 0..(num_models - 1)
            /\ \A k \in 1..Len(req[r].calls) : Failed(req[r].calls[k].res)

C8_Witness ==
    \E r \in Reqs :
        /\ req[r].ep = "svc_stream" /\ Exhausted(req[r]) /\ req[r].start = 1
        /\ Len(req[r].calls) = num_models

(* C9: a candidate that fails with an invalid-credential error is the last *)
(* one tried in its request, and the request ends neither as a completion  *)
(* nor as "all models exhausted".                                          *)
C9_InvalidKeyStops ==
    \A r \in Reqs :
        \A k \in 1..Len(req[r].calls) :
            req[r].calls[k].res = "invalid_key"
                => /\ k = Len(req[r].calls)
                   /\ ~Exhausted(req[r])
                   /\ ~Completed(req[r])

(* C10: a candidate that fails with a content-safety block or an           *)
(* invalid-request error is the last one tried in its request, and the     *)
(* request is answered with HTTP 400, on every fallback path.              *)
C10_BlockedStops ==
    \A r \in Reqs :
        \A k \in 1..Len(req[r].calls) :
            req[r].calls[k].res \in {"blocked", "invalid_request"}
                => /\ k = Len(req[r].calls)
                   /\ req[r].pc = "done" => req[r].status = 400

(* C11: within one call of AIService.chat or AIService.chat_stream over N  *)
(* candidates, the i-th attempt (from 0) uses candidate (s + i) mod N,     *)
(* where s is the sticky index read when the call started; so no candidate *)
(* is tried twice and at most N backend calls are made.                    *)
C11_RotationFromStart ==
    \A r \in Reqs :
        req[r].ep \in Service =>
            /\ \A k \in 1..Len(req[r].calls) :
                  req[r].calls[k].cand = (req[r].start + (k - 1)) % num_models
            /\ \A j, k \in 1..Len(req[r].calls) :
                  req[r].calls[j].cand = req[r].calls[k].cand => j = k
            /\ Len(BackendCalls(req[r])) <= num_models

C11_Witness ==
    \E r \in Reqs :
        /\ req[r].ep = "svc_stream" /\ req[r].start = 2
        /\ Len(req[r].calls) = num_models
        /\ req[r].calls[2].cand = 0 /\ req[r].calls[3].cand = 1

(* C12: the sticky index changes only in a step in which a candidate fails *)
(* with a quota error; a step in which a candidate succeeds, fails with an *)
(* invalid-credential error or fails with any other error leaves it as it  *)
(* was.                                                                    *)
Recorded(r, kinds) ==
    /\ req'[r].calls # req[r].calls
    /\ req'[r].calls # <<>>
    /\ req'[r].calls[Len(req'[r].calls)].res \in kinds

C12_OnlyQuotaMovesSticky ==
    [][ /\ \A r \in Reqs :
             Recorded(r, {"ok", "invalid_key", "other", "blocked", "invalid_request"})
                 => current_model_index' = current_model_index
        /\ current_model_index' # current_model_index
             => \E r \in Reqs : Recorded(r, {"quota"}) ]_vars

C12_Witness ==
    \E r \in Reqs :
        /\ req[r].ep = "svc_chat" /\ req[r].pc = "done"
        /\ req[r].start = 1 /\ current_model_index = 1
        /\ Len(req[r].calls) = 2
        /\ req[r].calls[1].res = "other" /\ req[r].calls[2].res = "invalid_key"

(* C13: every streaming response that has ended, whether it carried        *)
(* fragments or an error payload, has exactly one sentinel "done" event,   *)
(* and that event is its last one.                                         *)
DoneEvent == <<"data", "done">>

Streamed(q) ==
    /\ ~q.closed
    /\ \/ q.ep = "chat_stream" /\ q.pc = "done" /\ q.status = StreamOkStatus
       \/ q.ep = "svc_stream" /\ q.pc = "done"

C13_EndsWithOneSentinel ==
    \A r \in Reqs :
        Streamed(req[r]) =>
            /\ req[r].out # <<>>
            /\ \A k \in 1..Len(req[r].out) :
                  req[r].out[k] = DoneEvent <=> k = Len(req[r].out)

(* C14: a message whose character diversity is abnormally low for its      *)
(* length (12 identical characters) is rejected with HTTP 400 and no call  *)
(* to the Generation Backend is made for it.  (The maximum length has no   *)
(* value in the source; the handlers treat a message of any length like    *)
(* every other non-empty message.)                                         *)
LowDiversity(m) ==
    /\ Len(m) >= SpamFloodLen
    /\ Cardinality({m[k] : k \in 1..Len(m)}) = 1

C14_SpamRejected ==
    \A r \in Reqs :
        (req[r].ep \in Gateway /\ LowDiversity(req[r].msg) /\ req[r].hasKey
            /\ Handled(req[r]))
            => /\ req[r].pc = "done"
               /\ req[r].status = 400
               /\ BackendCalls(req[r]) = <<>>

(* C15 as stated: when the credential is not configured, POST /chat and    *)
(* POST /chat/stream answer the request with HTTP 500 and make no attempt  *)
(* on any candidate.                                                       *)
NoCredential(q) == q.ep \in Gateway /\ ~q.hasKey /\ Handled(q)

Misconfigured(q) == q.pc = "done" /\ q.status = 500 /\ q.calls = <<>>

C15_NoKeyIs500 ==
    \A r \in Reqs : NoCredential(req[r]) => Misconfigured(req[r])

(* C15 amended: when the credential is not configured, no attempt on any   *)
(* candidate is made; POST /chat/stream answers every request, and POST    *)
(* /chat every request whose message is not empty, with HTTP 500 (POST     *)
(* /chat rejects an empty message with 400 before it looks at the          *)
(* credential).                                                            *)
C15_NoKeyIs500UnlessEmpty ==
    \A r \in Reqs :
        NoCredential(req[r]) =>
            /\ req[r].calls = <<>>
            /\ (req[r].ep = "chat" /\ EmptyMessage(req[r].msg))
                  => req[r].status = ChatRejectStatus
            /\ ~(req[r].ep = "chat" /\ EmptyMessage(req[r].msg))
                  => Misconfigured(req[r])

C15_Witness ==
    \E r \in Reqs :
        /\ NoCredential(req[r]) /\ req[r].ep = "chat"
        /\ req[r].msg = <<"a", " ">> /\ Misconfigured(req[r])

(* C16: once the caller has closed a stream, no further candidate is tried *)
(* for that request and no further item is emitted.                        *)
C16_NothingAfterClose ==
    [][ \A r \in Reqs :
          req'[r].closed =>
              /\ req'[r].calls = req[r].calls
              /\ req'[r].out = req[r].out
              /\ req'[r].pc = "done" ]_vars

C16_Witness ==
    \E r \in Reqs :
        /\ req[r].ep = "svc_stream" /\ req[r].closed
        /\ Len(req[r].calls) = 1 /\ req[r].calls[1].res = "pending"
        /\ Len(req[r].out) = 1

(* C17: when POST /chat ends a request with HTTP 502, the error named in   *)
(* the response is the one raised by the last candidate tried in that      *)
(* request.                                                                *)
C17_LastErrorSurfaced ==
    \A r \in Reqs :
        (req[r].ep = "chat" /\ req[r].pc = "done" /\ req[r].status = 502)
            => /\ req[r].calls # <<>>
               /\ \E e \in Errors :
                     /\ e.kind = req[r].calls[Len(req[r].calls)].res
                     /\ req[r].body = AllFailedDetail(e)

C17_Witness ==
    \E r \in Reqs :
        /\ req[r].ep = "chat" /\ req[r].pc = "done" /\ req[r].status = 502
        /\ req[r].calls[1].res = "quota"
        /\ req[r].calls[Len(req[r].calls)].res = "other"
        /\ req[r].body = AllFailedDetail(ErrServer)

(* C18: when a non-streaming request completes, the text (and model name)  *)
(* returned are those of the last candidate tried, which succeeded; the    *)
(* candidates tried are the first ones in rotation order from the index    *)
(* the request started at, each tried once, and every one before the last  *)
(* failed with a retryable error: a quota error or an error that is        *)
(* neither an invalid credential nor a content-safety or invalid-request   *)
(* block.                                                                  *)
Retryable == {"quota", "other"}

ModelsOf(q) == IF q.ep = "chat" THEN chat_models_to_try ELSE available_models

ReturnedText(q) == IF q.ep = "chat" THEN q.body[1] ELSE q.body

C18_FirstSuccessInRotation ==
    \A r \in Reqs :
        (req[r].ep \in {"chat", "svc_chat"} /\ Completed(req[r])) =>
            LET n == Len(req[r].calls)
            IN /\ n >= 1 /\ n <= num_models
               /\ req[r].calls[n].res = "ok"
               /\ \E len \in TextLens :
                     ReturnedText(req[r]) =
                         TextOf(ModelAt(ModelsOf(req[r]), req[r].calls[n].cand), len)
               /\ req[r].ep = "chat" =>
                     req[r].body[2] = ModelAt(chat_models_to_try, req[r].calls[n].cand)
               /\ \A k \in 1..n :
                     req[r].calls[k].cand = (req[r].start + (k - 1)) % num_models
               /\ \A k \in 1..(n - 1) : req[r].calls[k].res \in Retryable

(* C19: whatever calls of chat and chat_stream are made, however they are  *)
(* interleaved and whatever the backend answers, the sticky index is a     *)
(* position of the candidate list (0 <= index < N), and a step that        *)
(* changes it sets it to (k + 1) mod N for a candidate k that failed with  *)
(* a quota error in that step.                                             *)
C19_StickyValid ==
    /\ [](current_model_index \in 0..(num_models - 1))
    /\ [][ current_model_index' # current_model_index =>
             \E r \in Reqs :
                 /\ Recorded(r, {"quota"})
                 /\ current_model_index' =
                       (req'[r].calls[Len(req'[r].calls)].cand + 1) % num_models ]_vars

C19_Witness ==
    \E r, q \in Reqs :
        /\ req[r].ep = "svc_stream" /\ req[r].pc = "yielded" /\ req[r].start = 0
        /\ req[q].ep = "svc_stream" /\ req[q].pc = "yielded" /\ req[q].start = 0
        /\ r # q
        /\ req[q].calls[Len(req[q].calls)].cand = 2
        /\ current_model_index = 2

(* C20: when a call that is not interleaved with another starts at sticky  *)
(* index s and all N candidates fail with quota errors, the sticky index   *)
(* is s again after the call, and the next call starts at candidate s.     *)
C20_FullCycleReturns ==
    /\ \A r \in Reqs :
          (req[r].ep \in Service /\ AllQuota(req[r]))
              => current_model_index = req[r].start
    /\ \A r \in Reqs :
          (req[r].ep \in Service /\ req[r].pc = "done" /\ AllQuota(req[r])
              /\ ~req[r].closed)
              => handoff = req[r].start
    /\ \A r \in Reqs :
          (req[r].ep \in Service /\ req[r].expect # -1 /\ Handled(req[r]))
              => req[r].start = req[r].expect

C20_Witness ==
    \E r \in Reqs :
        /\ req[r].ep = "svc_stream" /\ req[r].pc = "done" /\ AllQuota(req[r])
        /\ req[r].expect = 1 /\ req[r].start = 1
        /\ current_model_index = 1 /\ handoff = 1

(* C21: when calls are interleaved (a stream is suspended at a yield while *)
(* another call runs and changes the sticky index), each call still tries  *)
(* the candidates in the rotation that starts at the sticky index it read  *)
(* when it started: its tries are the first ones of that rotation, none    *)
(* skipped and none repeated, and the candidate a stream is on is the one  *)
(* its own start and loop counter give.                                    *)
RotationOf(q, n) == [k \in 1..n |-> (q.start + (k - 1)) % num_models]

C21_OwnRotationUnderInterleaving ==
    \A r \in Reqs :
        req[r].ep \in Service =>
            LET n == Len(req[r].calls)
            IN /\ n <= num_models
               /\ [k \in 1..n |-> req[r].calls[k].cand] = RotationOf(req[r], n)
               /\ Cardinality(Cands(req[r])) = n
               /\ req[r].pc \in {"iter", "yielded"}
                     => /\ n = req[r].i + 1
                        /\ req[r].idx = (req[r].start + req[r].i) % num_models

\* the race: r read index 0; q found candidates 0 and 1 exhausted and moved
\* the index to 2; r then failed on 0, moved the index back to 1, and is on
\* candidate 1
C21_Witness ==
    \E r, q \in Reqs :
        /\ r # q
        /\ req[r].ep = "svc_stream" /\ req[q].ep = "svc_stream"
        /\ req[q].pc = "yielded" /\ req[q].start = 0 /\ Len(req[q].calls) = 3
        /\ req[q].calls[2] = [cand |-> 1, res |-> "quota"]
        /\ req[r].pc = "iter" /\ req[r].start = 0 /\ Len(req[r].calls) = 2
        /\ req[r].calls[1] = [cand |-> 0, res |-> "quota"]
        /\ req[r].calls[2].cand = 1
        /\ req[r].sent # <<>>
        /\ current_model_index = 1

====
